---- MODULE Spec2Model ----
(***************************************************************************)
(* A model of the employee-records service: the five request handlers of    *)
(* main.py over the "employees" table, the Pydantic input model of          *)
(* employee.py, the two EmployeeDB mapped classes of the repository         *)
(* (employeeDB.py, employee_db.py) and the per-request session of get_db.   *)
(*                                                                          *)
(* Every handler is an `async def` without an await in its body, so one     *)
(* handler body is one atomic step; acquiring and closing the session are   *)
(* separate steps, and the steps of different requests interleave.          *)
(***************************************************************************)
EXTENDS Integers, FiniteSets, Sequences, TLC

\* ------------------------------------------------------------------ bounds

MaxRequests == 3    \* requests served in one run
MaxId == 2          \* path parameters {id} are drawn from 1..MaxId

Requests == 1..MaxRequests
PathIds == 1..MaxId

\* ------------------------------------------------------- the input model

\* employee.py: the seven fields of the Employee schema.
Fields ==
    {"first_name", "last_name", "email", "title", "role", "employee_number",
     "organisation"}


\* The range check with its lower limit excluded.
validate_employee_number_exclusive(v) ==
    IF v <= 0 THEN "Employee number must be positive."
    ELSE IF ~(1000 < v /\ v <= 9999)
         THEN "Employee number must be exactly 4 digits."
         ELSE ""

\* employee.py validate_employee_number: "" when v is accepted, otherwise the
\* message of the ValueError raised.
validate_employee_number(v) ==
    IF v <= 0 THEN "Employee number must be positive."
    ELSE IF ~(1000 <= v /\ v <= 9999)
         THEN "Employee number must be exactly 4 digits."
         ELSE ""

Body(fn, ln, em, ti, ro, num, org) ==
    [first_name |-> fn, last_name |-> ln, email |-> em, title |-> ti,
     role |-> ro, employee_number |-> num, organisation |-> org]

NoBody == Body("", "", "", "", "", 0, "")

Jane == Body("Jane", "Doe", "jane@example.com", "Engineer", "Dev", 1234, "Acme")
\* same email as Jane, every other field different
John == Body("John", "Smith", "jane@example.com", "Mr", "Admin", 1000, "Tech Corp")
\* same employee_number as Jane, every other field different
Ann == Body("Ann", "Lee", "ann@example.com", "Manager", "User", 1234, "Initech")
\* fails the 4-digit rule
Bob == Body("Bob", "Ray", "bob@example.com", "Clerk", "User", 999, "Acme")

Bodies == {Jane, John, Ann, Bob}

\* The employee numbers of the validation specification.
Numbers == {-5, 0, 1, 999, 1000, 1234, 9999, 10000}
NumberBodies == {[Jane EXCEPT !.employee_number = v] : v \in Numbers}

\* ------------------------------------------------------ the mapped class

\* The repository holds two EmployeeDB classes for the table "employees":
\* employeeDB.py (flat: role and organisation are columns) and employee_db.py
\* (normalised: role_id / organisation_id and relationships; main.py imports
\* this one).
Mappings == {"employeeDB", "employee_db"}

\* The attributes of the class that belong to the Employee schema.
Attributes(m) ==
    IF m = "employeeDB"
    THEN {"first_name", "last_name", "title", "organisation",
          "employee_number", "role", "email"}
    ELSE {"first_name", "last_name", "title", "email", "employee_number"}

\* SQLAlchemy's declarative constructor: a keyword that is no attribute of the
\* class raises TypeError.  main.py passes all seven fields.
ConstructorRaises(m) == Fields \ Attributes(m) # {}


\* The row without its organisation column filled.
RowWithoutOrganisation(i, b) ==
    [id |-> i, first_name |-> b.first_name, last_name |-> b.last_name,
     title |-> b.title, organisation |-> "",
     employee_number |-> b.employee_number, role |-> b.role, email |-> b.email]

\* The row EmployeeDB(**kwargs) inserts, with the generated id.
Row(i, b) ==
    [id |-> i, first_name |-> b.first_name, last_name |-> b.last_name,
     title |-> b.title, organisation |-> b.organisation,
     employee_number |-> b.employee_number, role |-> b.role, email |-> b.email]

\* The seven schema fields of a stored row (response_model = Employee).
Serialize(row) ==
    Body(row.first_name, row.last_name, row.email, row.title, row.role,
         row.employee_number, row.organisation)


\* The table with unique=True on email alone.
UniqueViolationEmailOnly(rows, b) == \E x \in rows : x.email = b.email

\* The table with unique=True on employee_number alone.
UniqueViolationNumberOnly(rows, b) ==
    \E x \in rows : x.employee_number = b.employee_number

\* unique=True on email and on employee_number: the INSERT of b is refused.
UniqueViolation(rows, b) ==
    \E x \in rows : x.email = b.email \/ x.employee_number = b.employee_number


\* A lookup that ignores the primary key.
GetAny(rows, i) == rows

\* db.query(EmployeeDB).get(id): the rows with that primary key (none or one).
Get(rows, i) == {x \in rows : x.id = i}


\* db.delete(row) with the commit left out.
DbDeleteUncommitted(rows, row) == rows

\* db.delete(row); db.commit()
DbDelete(rows, row) == rows \ {row}

\* bd_employee.first_name = ...; bd_employee.last_name = ...; db.commit()
ApplyUpdate(row, b) ==
    [row EXCEPT !.first_name = b.first_name, !.last_name = b.last_name]


\* One module-level Session handed to every request.
SessionLocalShared(n) == 1

\* SessionLocal(): a new Session object on every call.
SessionLocal(n) == n + 1

\* ------------------------------------------------------------ the handlers

\* What a handler leaves behind: the response (status, detail, result), whether
\* the exception left the handler uncaught (the server then answers a bare 500),
\* the table and the id sequence after it, and the id it generated (0: none).
Outcome(status, unhandled, text, error, result, rows, nid, newId) ==
    [status |-> status, unhandled |-> unhandled,
     detail |-> [text |-> text, error |-> error], result |-> result,
     store |-> rows, nextId |-> nid, newId |-> newId]

\* str(e) of the storage exception a fault raises.
DbError == "OperationalError: connection lost"

\* An exception no except clause of the handler catches; nothing is committed.
Unhandled(error, rows, nid) ==
    Outcome(500, TRUE, "Internal Server Error", error, {}, rows, nid, 0)

\* The request body failed Employee's validation: FastAPI answers 422 with the
\* validator's message and never calls the handler.
ValidationError(msg, rows, nid) ==
    Outcome(422, FALSE, "Value error", msg, {}, rows, nid, 0)

\* main.py 72-87: GET /v1/employees/
employee_details(rows, nid, fault) ==
    IF fault
    THEN Outcome(500, FALSE, "Error retrieving employees: ", DbError, {}, rows, nid, 0)
    ELSE Outcome(200, FALSE, "", "", rows, rows, nid, 0)

\* main.py 90-120: POST /v1/employees/.  The sequence behind the id column is
\* advanced by an INSERT that the unique index then refuses.
employee_create(m, rows, nid, b, fault) ==
    IF validate_employee_number(b.employee_number) # ""
    THEN ValidationError(validate_employee_number(b.employee_number), rows, nid)
    ELSE IF ConstructorRaises(m)
    THEN Unhandled("TypeError: invalid keyword argument for EmployeeDB", rows, nid)
    ELSE IF fault
    THEN Unhandled(DbError, rows, nid)
    ELSE IF UniqueViolation(rows, b)
    THEN Outcome(400, FALSE,
                 "Employee already exists or your email is incorrect (example@email.com)",
                 "", {}, rows, nid + 1, 0)
    ELSE Outcome(200, FALSE, "New employee has been created successfully.", "",
                 {}, rows \cup {Row(nid, b)}, nid + 1, nid)

\* main.py 122-144: PUT /v1/employees/{id}
employee_update(rows, nid, i, b, fault) ==
    IF validate_employee_number(b.employee_number) # ""
    THEN ValidationError(validate_employee_number(b.employee_number), rows, nid)
    ELSE IF fault
    THEN Unhandled(DbError, rows, nid)
    ELSE IF Get(rows, i) = {}
    THEN Outcome(404, FALSE, "Employee not found", "", {}, rows, nid, 0)
    ELSE LET row == CHOOSE x \in Get(rows, i) : TRUE
         IN  Outcome(200, FALSE, "New employee has been updated successfully.", "",
                     {}, (rows \ {row}) \cup {ApplyUpdate(row, b)}, nid, 0)

\* main.py 147-167: DELETE /v1/employees/{id}
employee_delete(rows, nid, i, fault) ==
    IF fault
    THEN Unhandled(DbError, rows, nid)
    ELSE IF Get(rows, i) = {}
    THEN Outcome(404, FALSE, "Employee not found", "", {}, rows, nid, 0)
    ELSE LET row == CHOOSE x \in Get(rows, i) : TRUE
         IN  Outcome(200, FALSE, "Employee has been deleted successfully.", "",
                     {}, DbDelete(rows, row), nid, 0)

\* main.py 170-188: GET /v1/employees/{id}, response_model = Employee: the
\* returned object is read field by field; a missing attribute fails the
\* response validation, which no handler catches.
employee_details_id(m, rows, nid, i, fault) ==
    IF fault
    THEN Unhandled(DbError, rows, nid)
    ELSE IF Get(rows, i) = {}
    THEN Outcome(404, FALSE, "Employee not found", "", {}, rows, nid, 0)
    ELSE IF ~(Fields \subseteq Attributes(m))
    THEN Unhandled("ResponseValidationError", rows, nid)
    ELSE LET row == CHOOSE x \in Get(rows, i) : TRUE
         IN  Outcome(200, FALSE, "", "", {Serialize(row)}, rows, nid, 0)

\* ------------------------------------------------------------------ state

VARIABLES
    mapping,      \* the EmployeeDB class bound to the table
    store,        \* the committed rows of "employees"
    nextId,       \* the next value of the id sequence
    nextSession,  \* how many Session objects SessionLocal has made
    closes,       \* session -> number of db.close() calls made on it
    req,          \* request -> its position and the session it holds
    last,         \* the latest handler run: its request, inputs and response
    hist          \* what the responses so far have told a client

vars == <<mapping, store, nextId, nextSession, closes, req, last, hist>>

Idle == [pc |-> "idle", session |-> 0]

NoResponse ==
    [req |-> 0, op |-> "", id |-> 0, body |-> NoBody, fault |-> FALSE,
     status |-> 0, unhandled |-> FALSE, detail |-> [text |-> "", error |-> ""],
     result |-> {}, newId |-> 0]

\* created: id -> the input of the create that generated it, while no update or
\*          delete of that id has succeeded since;
\* deleted: the ids whose delete succeeded;
\* inputs:  the inputs of the creates that succeeded;
\* ok:      the number of successful creates, updates and deletes.
NoHistory ==
    [created |-> [i \in {} |-> NoBody], deleted |-> {}, inputs |-> {},
     ok |-> [create |-> 0, update |-> 0, delete |-> 0]]

\* The history after a handler ran on (op, i, b) and left `out`.
Observe(h, op, i, b, out) ==
    IF out.status # 200 THEN h
    ELSE IF op = "create"
    THEN [h EXCEPT !.created = [x \in DOMAIN h.created \cup {out.newId} |->
                                   IF x = out.newId THEN b ELSE h.created[x]],
                   !.inputs = @ \cup {b},
                   !.ok.create = @ + 1]
    ELSE IF op = "update"
    THEN [h EXCEPT !.created = [x \in DOMAIN h.created \ {i} |-> h.created[x]],
                   !.ok.update = @ + 1]
    ELSE IF op = "delete"
    THEN [h EXCEPT !.created = [x \in DOMAIN h.created \ {i} |-> h.created[x]],
                   !.deleted = @ \cup {i},
                   !.ok.delete = @ + 1]
    ELSE h

Init ==
    /\ mapping \in Mappings
    /\ store = {}
    /\ nextId = 1
    /\ nextSession = 0
    /\ closes = [s \in {} |-> 0]
    /\ req = [r \in Requests |-> Idle]
    /\ last = NoResponse
    /\ hist = NoHistory

\* main.py 60-67, get_db up to its yield: the request gets a session of its own.
\* Requests are numbered in the order they arrive.
Begin(r) ==
    /\ req[r].pc = "idle"
    /\ IF r = 1 THEN TRUE ELSE req[r - 1].pc # "idle"
    /\ LET s == SessionLocal(nextSession)
       IN  /\ nextSession' = nextSession + 1
           /\ closes' = [x \in DOMAIN closes \cup {s} |->
                            IF x \in DOMAIN closes THEN closes[x] ELSE 0]
           /\ req' = [req EXCEPT ![r] = [pc |-> "open", session |-> s]]
    /\ UNCHANGED <<mapping, store, nextId, last, hist>>

\* main.py 68-69, get_db's finally: db.close(), whatever the handler did.
Close(r) ==
    /\ req[r].pc = "responded"
    /\ closes' = [closes EXCEPT ![req[r].session] = @ + 1]
    /\ req' = [req EXCEPT ![r].pc = "closed"]
    /\ UNCHANGED <<mapping, store, nextId, nextSession, last, hist>>

\* The handler of request r ran on inputs (op, i, b, fault) and left `out`.
Respond(r, op, i, b, fault, out) ==
    /\ req[r].pc = "open"
    /\ store' = out.store
    /\ nextId' = out.nextId
    /\ req' = [req EXCEPT ![r].pc = "responded"]
    /\ last' = [req |-> r, op |-> op, id |-> i, body |-> b, fault |-> fault,
                status |-> out.status, unhandled |-> out.unhandled,
                detail |-> out.detail, result |-> out.result,
                newId |-> out.newId]
    /\ hist' = Observe(hist, op, i, b, out)
    /\ UNCHANGED <<mapping, nextSession, closes>>

EmployeeList(r, fault) ==
    Respond(r, "list", 0, NoBody, fault, employee_details(store, nextId, fault))

\* A storage failure (fault) strikes only a handler that reaches the storage.
EmployeeCreate(r, b, fault) ==
    /\ fault => validate_employee_number(b.employee_number) = ""
    /\ fault => ~ConstructorRaises(mapping)
    /\ Respond(r, "create", 0, b, fault,
               employee_create(mapping, store, nextId, b, fault))

EmployeeUpdate(r, i, b, fault) ==
    /\ fault => validate_employee_number(b.employee_number) = ""
    /\ Respond(r, "update", i, b, fault, employee_update(store, nextId, i, b, fault))

EmployeeDelete(r, i, fault) ==
    Respond(r, "delete", i, NoBody, fault, employee_delete(store, nextId, i, fault))

EmployeeGet(r, i, fault) ==
    Respond(r, "get", i, NoBody, fault,
            employee_details_id(mapping, store, nextId, i, fault))

Handle ==
    \E r \in Requests, fault \in BOOLEAN :
        \/ EmployeeList(r, fault)
        \/ \E b \in Bodies : EmployeeCreate(r, b, fault)
        \/ \E i \in PathIds, b \in Bodies : EmployeeUpdate(r, i, b, fault)
        \/ \E i \in PathIds : EmployeeDelete(r, i, fault)
        \/ \E i \in PathIds : EmployeeGet(r, i, fault)

\* The validation specification's requests: bodies over a range of numbers.
HandleNumbers ==
    \E r \in Requests, b \in NumberBodies :
        \/ EmployeeCreate(r, b, FALSE)
        \/ \E i \in PathIds : EmployeeUpdate(r, i, b, FALSE)

\* The session specification's requests: every handler and every way it can
\* end, over one path id and two bodies.
HandleSessions ==
    \E r \in Requests, fault \in BOOLEAN :
        \/ EmployeeList(r, fault)
        \/ \E b \in {Jane, Bob} : EmployeeCreate(r, b, fault)
        \/ \E b \in {Jane, Bob} : EmployeeUpdate(r, 1, b, fault)
        \/ EmployeeDelete(r, 1, fault)
        \/ EmployeeGet(r, 1, fault)

Acquire == \E r \in Requests : Begin(r)

Release == \E r \in Requests : Close(r)

Next == Acquire \/ Handle \/ Release

Spec == Init /\ [][Next]_vars

\* The event loop runs every handler that is ready, and get_db's finally runs
\* once the handler has ended.
NextSessions == Acquire \/ HandleSessions \/ Release

FairSpec ==
    Init /\ [][NextSessions]_vars /\ WF_vars(HandleSessions) /\ WF_vars(Release)

NextNumbers == Acquire \/ HandleNumbers \/ Release

SpecNumbers == Init /\ [][NextNumbers]_vars

\* ------------------------------------------------------------- properties

\* The step in which a handler ran; last' then holds its inputs and response.
HandlerStep == \E r \in Requests : req[r].pc = "open" /\ req'[r].pc = "responded"

InRange(v) == 1000 <= v /\ v <= 9999

SameEmail(rows, b) == {x \in rows : x.email = b.email}

SameNumber(rows, b) == {x \in rows : x.employee_number = b.employee_number}

C3_EmployeeNumberValidated ==
    [][(HandlerStep /\ last'.op \in {"create", "update"})
       => LET v == last'.body.employee_number
              rejected == last'.status = 422
          IN  /\ ~rejected <=> InRange(v)
              /\ v <= 0 =>
                    /\ rejected
                    /\ last'.detail.error = "Employee number must be positive."
              /\ ((1 <= v /\ v <= 999) \/ v >= 10000) =>
                    /\ rejected
                    /\ last'.detail.error = "Employee number must be exactly 4 digits."
              /\ rejected => store' = store /\ nextId' = nextId]_vars

\* A body with employee_number 10000 was rejected while a row is stored.
C3_Witness ==
    /\ last.op \in {"create", "update"}
    /\ last.body.employee_number = 10000
    /\ last.status = 422
    /\ store # {}

\* C4: get-by-id, update (valid body) and delete on an id that no stored row
\* has answer 404, not a server error, and leave the stored rows as they were
\* (the storage itself answering).
C4_MissingIdNotFound ==
    [][(/\ HandlerStep
        /\ last'.op \in {"get", "update", "delete"}
        /\ ~last'.fault
        /\ last'.op = "update" => InRange(last'.body.employee_number)
        /\ \A x \in store : x.id # last'.id)
       => (/\ last'.status = 404
           /\ ~last'.unhandled
           /\ last'.detail.text = "Employee not found"
           /\ store' = store)]_vars

\* A delete of an absent id answered 404 while another row is stored.
C4_Witness ==
    /\ last.op = "delete"
    /\ last.status = 404
    /\ store # {}
    /\ \A x \in store : x.id # last.id

\* One step of create-then-get: a valid input that collides with nothing stored
\* is created under a generated id; a get of an id created and not updated or
\* deleted since returns the created input.
CreateThenGetStep ==
    /\ (/\ HandlerStep
        /\ last'.op = "create"
        /\ ~last'.fault
        /\ InRange(last'.body.employee_number)
        /\ SameEmail(store, last'.body) \cup SameNumber(store, last'.body) = {})
       => (/\ last'.status = 200
           /\ last'.newId \notin {x.id : x \in store} \cup {0}
           /\ \E x \in store' : x.id = last'.newId)
    /\ (/\ HandlerStep
        /\ last'.op = "get"
        /\ ~last'.fault
        /\ last'.id \in DOMAIN hist.created)
       => (/\ last'.status = 200
           /\ last'.result = {hist.created[last'.id]})

\* C5: a valid input that collides with nothing stored is created with a
\* generated id, and a later get-by-id on that id, no update or delete of it
\* in between, returns the input on all seven fields.
C5_CreateThenGet == [][CreateThenGetStep]_vars

\* The same round trip with the flat class of employeeDB.py mapped, where the
\* constructor accepts all seven keywords.
CreateThenGetFlat == [][mapping = "employeeDB" => CreateThenGetStep]_vars

\* C6: an update of a stored id with a valid body succeeds, the row of that id
\* then holds every field of the body, and every other row is unchanged.
C6_UpdateOverwritesAllFields ==
    [][(/\ HandlerStep
        /\ last'.op = "update"
        /\ ~last'.fault
        /\ InRange(last'.body.employee_number)
        /\ \E x \in store : x.id = last'.id)
       => (/\ last'.status = 200
           /\ {Serialize(x) : x \in {y \in store' : y.id = last'.id}} = {last'.body}
           /\ {y \in store' : y.id # last'.id} = {y \in store : y.id # last'.id})]_vars

\* C7: a storage failure in any of the five handlers is answered by a 5xx
\* response built by the handler, with the error text in it.
C7_FailuresBecomeResponses ==
    last.fault => /\ last.status = 500
                  /\ ~last.unhandled
                  /\ last.detail.error = DbError

\* C8: a delete of a stored id removes that row and no other, and from then on
\* get-by-id, update and delete on that id answer 404.
C8_DeleteIsPermanent ==
    [][/\ (/\ HandlerStep
           /\ last'.op = "delete"
           /\ ~last'.fault
           /\ \E x \in store : x.id = last'.id)
          => (/\ last'.status = 200
              /\ \A x \in store' : x.id # last'.id
              /\ store' = {x \in store : x.id # last'.id})
       /\ (/\ HandlerStep
           /\ last'.op \in {"get", "update", "delete"}
           /\ ~last'.fault
           /\ last'.op = "update" => InRange(last'.body.employee_number)
           /\ last'.id \in hist.deleted)
          => last'.status = 404]_vars

\* A get of an id whose delete had succeeded answered 404.
C8_Witness ==
    /\ last.op = "get"
    /\ last.id \in hist.deleted
    /\ last.status = 404

SessionsScoped ==
    /\ \A r \in Requests :
          /\ req[r].pc = "idle" => req[r].session = 0
          /\ req[r].pc \in {"open", "responded"} =>
                req[r].session \in DOMAIN closes /\ closes[req[r].session] = 0
          /\ req[r].pc = "closed" =>
                req[r].session \in DOMAIN closes /\ closes[req[r].session] = 1
    /\ \A r1, r2 \in Requests :
          (r1 # r2 /\ req[r1].pc # "idle" /\ req[r2].pc # "idle")
             => req[r1].session # req[r2].session

\* C10: every request gets a fresh session when it starts, the session is
\* closed exactly once when the request ends, whatever the handler did, and no
\* session is held by two requests.
C10_SessionPerRequest ==
    /\ []SessionsScoped
    /\ \A r \in Requests : (req[r].pc = "open") ~> (req[r].pc = "closed")

\* A request whose handler let an exception escape has had its session closed
\* while another request is in flight.
C10_Witness ==
    /\ last.unhandled
    /\ req[last.req].pc = "closed"
    /\ closes[req[last.req].session] = 1
    /\ \E r \in Requests : req[r].pc = "open"

====
